---- MODULE Spec2Model ----
(***************************************************************************)
(* Battery measurement module (source/modules/m_batt_meas.c).              *)
(*                                                                         *)
(* The module runs on one core with two execution contexts: the main       *)
(* context (API calls, the blocking calibration loop, the deferred          *)
(* handler run by the application scheduler) and the interrupt context      *)
(* (SAADC events, application-timer ticks).  Every handler is one action.   *)
(*                                                                         *)
(* APP_ERROR_CHECK / APP_ERROR_HANDLER end in the SDK's fault handler,      *)
(* which resets or halts the device: the model records it in `fault` and    *)
(* nothing runs afterwards.                                                 *)
(*                                                                         *)
(* The float arithmetic of adc_to_batt_voltage and param_check is modelled  *)
(* with exact rationals <<numerator, denominator>>; the raw samples the     *)
(* pipeline is run on are chosen away from the truncation boundaries.       *)
(***************************************************************************)
EXTENDS Integers, Sequences, FiniteSets, TLC

\* ------------------------------------------------------------------ bounds
MaxSamples   == 2    \* conversions triggered in one run
MaxSpin      == 1    \* the wait loop's iterations are counted modulo MaxSpin + 1
MaxInitCalls == 1    \* calls of m_batt_meas_init in one run
SchedQueueSize == 2  \* capacity of the application scheduler's queue

\* -------------------------------------------------------- program constants
NRFX_SAADC_CONFIG_RESOLUTION == 1
ADC_RESOLUTION_BITS == 8 + (NRFX_SAADC_CONFIG_RESOLUTION * 2)
INVALID_BATTERY_LEVEL == 255
MEAS_INTERVAL_LOW_LIMIT_MS == 50
ADC_GAIN == "NRF_SAADC_GAIN1"
ADC_REFERENCE_VOLTAGE == <<6, 10>>

TwoTo16 == 256 * 256
TwoTo15 == 128 * 256

RECURSIVE Pow2(_)
Pow2(n) == IF n = 0 THEN 1 ELSE 2 * Pow2(n - 1)

RECURSIVE Gcd(_, _)
Gcd(a, b) == IF b = 0 THEN a ELSE Gcd(b, a % b)

\* C integer division truncates toward zero.
TruncDiv(a, b) == IF a >= 0 THEN a \div b ELSE -((-a) \div b)

\* Conversion of an int to int16_t / uint16_t (modulo 2^16).
ToInt16(x) == LET m == x % TwoTo16 IN IF m >= TwoTo15 THEN m - TwoTo16 ELSE m
ToUint16(x) == x % TwoTo16

\* Outcomes of a float -> uint16_t conversion whose value is out of range, and
\* of a byte read through a null table pointer: undefined in C, so a choice.
UndefinedU16 == {0, TwoTo16 - 1}
UndefinedU8 == {0, INVALID_BATTERY_LEVEL}

\* ------------------------------------------------------------ pure helpers

Gains ==
    {"NRF_SAADC_GAIN1_6", "NRF_SAADC_GAIN1_5", "NRF_SAADC_GAIN1_4", "NRF_SAADC_GAIN1_3",
     "NRF_SAADC_GAIN1_2", "NRF_SAADC_GAIN1", "NRF_SAADC_GAIN2", "NRF_SAADC_GAIN4"}

\* adc_gain_enum_to_real_gain: [err, real_val], real_val being *real_val after
\* the call (old_val when the function returns without assigning it).
adc_gain_enum_to_real_gain(gain_reg, old_val) ==
    CASE gain_reg = "NRF_SAADC_GAIN1_6" -> [err |-> "SUCCESS", real_val |-> <<1, 6>>]
      [] gain_reg = "NRF_SAADC_GAIN1_5" -> [err |-> "SUCCESS", real_val |-> <<1, 5>>]
      [] gain_reg = "NRF_SAADC_GAIN1_4" -> [err |-> "SUCCESS", real_val |-> <<1, 4>>]
      [] gain_reg = "NRF_SAADC_GAIN1_3" -> [err |-> "SUCCESS", real_val |-> <<1, 3>>]
      [] gain_reg = "NRF_SAADC_GAIN1_2" -> [err |-> "SUCCESS", real_val |-> <<1, 2>>]
      [] gain_reg = "NRF_SAADC_GAIN1"   -> [err |-> "SUCCESS", real_val |-> <<1, 1>>]
      [] gain_reg = "NRF_SAADC_GAIN2"   -> [err |-> "SUCCESS", real_val |-> <<2, 1>>]
      [] gain_reg = "NRF_SAADC_GAIN4"   -> [err |-> "SUCCESS", real_val |-> <<3, 1>>]
      [] OTHER -> [err |-> "INVALID_PARAM", real_val |-> old_val]

\* Line 96: *voltage = ((tmp_voltage + 5) / 10) * 10, stored in a uint16_t.
RoundToTens(tmp_voltage) == ToUint16(((tmp_voltage + 5) \div 10) * 10)

\* Lines 94-95: the millivolt values the uint16_t tmp_voltage can take for a raw
\* code and a divider factor <<n, d>>.
TmpVoltage(adc_val, factor) ==
    LET g == adc_gain_enum_to_real_gain(ADC_GAIN, <<0, 1>>).real_val
        vref == ADC_REFERENCE_VOLTAGE
    IN IF factor[1] = 0
       THEN UndefinedU16
       ELSE LET t == (adc_val * vref[1] * g[2] * factor[2] * 1000)
                     \div (vref[2] * g[1] * Pow2(ADC_RESOLUTION_BITS) * factor[1])
            IN IF t >= TwoTo16 THEN UndefinedU16 ELSE {t}

\* adc_to_batt_voltage: the set of values *voltage can receive.
adc_to_batt_voltage(adc_val, factor) ==
    {RoundToTens(t) : t \in TmpVoltage(adc_val, factor)}

\* Lines 65-76: the index into voltage_to_soc (0-based).
SocVectorElement(voltage_mv, soc) ==
    LET e == ToInt16(TruncDiv(voltage_mv - soc.first_element_mv, soc.delta_mv))
    IN IF e < 0 THEN 0
       ELSE IF e > soc.num_elements - 1 THEN ToInt16(soc.num_elements - 1)
       ELSE e

\* batt_voltage_to_percent for a table with delta_mv > 0.
batt_voltage_to_percent(voltage_mv, soc) ==
    soc.voltage_to_soc[SocVectorElement(voltage_mv, soc) + 1]

\* The two threshold tests in the other order.
EventTypeFullFirst(voltage_mv, low, full) ==
    IF voltage_mv >= full THEN "FULL"
    ELSE IF voltage_mv <= low THEN "LOW"
    ELSE "DATA"

\* Lines 197-208: the event type.
EventType(voltage_mv, low, full) ==
    IF voltage_mv <= low THEN "LOW"
    ELSE IF voltage_mv >= full THEN "FULL"
    ELSE "DATA"

\* Lines 147-162 of param_check: [ok, val]; ok is FALSE when exactly one
\* resistor is zero, val is the factor r2 / (r1 + r2) in lowest terms.
DividerFactor(r_1_ohm, r_2_ohm) ==
    IF r_1_ohm = 0 /\ r_2_ohm = 0 THEN [ok |-> TRUE, val |-> <<1, 1>>]
    ELSE IF r_1_ohm = 0 \/ r_2_ohm = 0 THEN [ok |-> FALSE, val |-> <<0, 1>>]
    ELSE LET g == Gcd(r_2_ohm, r_1_ohm + r_2_ohm)
         IN [ok |-> TRUE, val |-> <<r_2_ohm \div g, (r_1_ohm + r_2_ohm) \div g>>]

\* param_check: [err, factor], factor being m_battery_divider_factor afterwards.
param_check(init, old_factor) ==
    IF init.evt_handler = "NULL"
    THEN [err |-> "NRF_ERROR_NULL", factor |-> old_factor]
    ELSE LET f == DividerFactor(init.param.r_1_ohm, init.param.r_2_ohm)
         IN IF ~f.ok
            THEN [err |-> "INVALID_PARAM", factor |-> old_factor]
            ELSE IF init.param.batt_voltage_limit_full < init.param.batt_voltage_limit_low
            THEN [err |-> "INVALID_PARAM", factor |-> f.val]
            ELSE [err |-> "SUCCESS", factor |-> f.val]

\* ------------------------------------------------------------------ state

VARIABLES
    mainPc,                        \* main context: "idle" or "cal_wait" (the loop of saadc_calibrate)
    fault,                         \* the fatal error handler has run
    faultAt,                       \* the call whose error reached it
    m_evt_handler,                 \* "NULL" or "handler"
    m_batt_meas_param,
    m_battery_divider_factor,      \* <<n, d>>
    m_buffer,                      \* m_buffer[0]
    m_adc_cal_in_progress,
    m_ble_bas_configured,
    m_initial_batt_level_percent,
    init_cb,                       \* p_handle->init_cb points to battery_service_init
    pinConfigured,                 \* the monitor-enable pin is a configured GPIOTE output
    monEn,                         \* level of the monitor-enable output
    saadcInit,                     \* the SAADC driver is initialized
    hwPending,                     \* event the SAADC will raise: "NONE", "CALIBRATEDONE", "DONE"
    timerCreated,
    timerRunning,
    schedQueue,                    \* application scheduler queue (voltage; id, raw, factor, mon are history)
    basLevel,                      \* battery level held by the battery service
    delivered,                     \* events passed to m_evt_handler, in order
    adcOwner,                      \* history: who initialized the SAADC since the last uninit
    cycleTriggers,                 \* history: nrf_drv_saadc_sample calls since the last uninit
    acqMon,                        \* history: monitor output asserted since the trigger
    nTrig,                         \* history: conversions triggered
    nDone,                         \* history: DONE interrupts handled
    nCalDone,                      \* history: CALIBRATEDONE interrupts handled
    handlerRuns,                   \* history: runs of batt_event_handler_adc
    nInit,                         \* history: calls of m_batt_meas_init
    spins,                         \* history: iterations of the current wait loop, modulo MaxSpin + 1
    fnIn,                          \* input of the pure function applied
    fnOut                          \* its result

cfgVars   == <<m_evt_handler, m_batt_meas_param, m_battery_divider_factor>>
adcVars   == <<saadcInit, hwPending, adcOwner, cycleTriggers, acqMon, nTrig, m_adc_cal_in_progress>>
irqVars   == <<m_buffer, nDone, nCalDone>>
timerVars == <<timerCreated, timerRunning>>
pinVars   == <<pinConfigured, monEn>>
sinkVars  == <<m_ble_bas_configured, m_initial_batt_level_percent, basLevel>>
faultVars == <<fault, faultAt>>
mainVars  == <<mainPc, nInit, spins, init_cb>>
outVars   == <<schedQueue, delivered, handlerRuns>>
fnVars    == <<fnIn, fnOut>>

vars == <<cfgVars, adcVars, irqVars, timerVars, pinVars, sinkVars, faultVars, mainVars,
          outVars, fnVars>>

\* ----------------------------------------------------------------- inputs

SocExample ==
    [num_elements |-> 11, first_element_mv |-> 3000, delta_mv |-> 100,
     voltage_to_soc |-> <<0, 10, 20, 30, 40, 50, 60, 70, 80, 90, 100>>]

SocZero ==
    [num_elements |-> 0, first_element_mv |-> 0, delta_mv |-> 0, voltage_to_soc |-> <<>>]

\* The zero-initialized static m_batt_meas_param.
ParamZero ==
    [r_1_ohm |-> 0, r_2_ohm |-> 0, batt_voltage_limit_low |-> 0, batt_voltage_limit_full |-> 0,
     state_of_charge |-> SocZero, batt_mon_en_pin_used |-> FALSE,
     adc_pin_no_ain |-> "NRF_SAADC_INPUT_DISABLED"]

Param(r1, r2, lo, fu, pu) ==
    [r_1_ohm |-> r1, r_2_ohm |-> r2, batt_voltage_limit_low |-> lo,
     batt_voltage_limit_full |-> fu, state_of_charge |-> SocExample,
     batt_mon_en_pin_used |-> pu, adc_pin_no_ain |-> "NRF_SAADC_INPUT_AIN3"]

\* Accepted parameters: a 6:1 divider with distinct and with equal limits, and no divider.
ValidParams ==
    {Param(6, 1, 3300, 4100, TRUE), Param(6, 1, 3300, 3300, FALSE),
     Param(0, 0, 3300, 4100, FALSE)}

\* Rejected parameters: one resistor zero, or low above full.
InvalidParams ==
    {Param(0, 1, 3300, 4100, FALSE), Param(6, 0, 3300, 4100, FALSE),
     Param(6, 1, 4100, 3300, FALSE)}

InitInputs ==
    {[evt_handler |-> "handler", param |-> q] : q \in ValidParams \cup InvalidParams}
    \cup {[evt_handler |-> "NULL", param |-> q] : q \in {Param(6, 1, 3300, 4100, TRUE)}}

RawSamples == {805, 902, 1000}
Intervals == {MEAS_INTERVAL_LOW_LIMIT_MS - 1, MEAS_INTERVAL_LOW_LIMIT_MS, 1000}
SinkResults ==
    {"NRF_SUCCESS", "NRF_ERROR_INVALID_STATE", "BLE_ERROR_GATTS_SYS_ATTR_MISSING",
     "NRF_ERROR_RESOURCES"}

\* --------------------------------------------------------------- the program

InitProgram ==
    /\ mainPc = "idle"
    /\ fault = FALSE
    /\ faultAt = "none"
    /\ m_evt_handler = "NULL"
    /\ m_batt_meas_param = ParamZero
    /\ m_battery_divider_factor = <<0, 1>>
    /\ m_buffer = 0
    /\ m_adc_cal_in_progress = FALSE
    /\ m_ble_bas_configured = FALSE
    /\ m_initial_batt_level_percent = INVALID_BATTERY_LEVEL
    /\ init_cb = FALSE
    /\ pinConfigured = FALSE
    /\ monEn = FALSE
    /\ saadcInit = FALSE
    /\ hwPending = "NONE"
    /\ timerCreated = FALSE
    /\ timerRunning = FALSE
    /\ schedQueue = <<>>
    /\ basLevel = INVALID_BATTERY_LEVEL
    /\ delivered = <<>>
    /\ adcOwner = {}
    /\ cycleTriggers = 0
    /\ acqMon = FALSE
    /\ nTrig = 0
    /\ nDone = 0
    /\ nCalDone = 0
    /\ handlerRuns = 0
    /\ nInit = 0
    /\ spins = 0

Init ==
    /\ InitProgram
    /\ fnIn = [f |-> "none"]
    /\ fnOut = [done |-> FALSE, val |-> 0]

\* APP_ERROR_CHECK(err_code) / APP_ERROR_HANDLER(err_code): the fatal error handler.
Fatal(where) == fault' = TRUE /\ faultAt' = where

\* nrf_drv_saadc_init: the driver refuses a second initialization.
nrf_drv_saadc_init_err == IF saadcInit THEN "NRF_ERROR_INVALID_STATE" ELSE "NRF_SUCCESS"

\* nrf_drv_saadc_uninit, the last statement of the interrupt handler.
nrf_drv_saadc_uninit ==
    /\ saadcInit' = FALSE
    /\ hwPending' = "NONE"
    /\ adcOwner' = {}
    /\ cycleTriggers' = 0

\* saadc_init without the check of line 266.
saadc_init_unchecked == FALSE

\* saadc_init, lines 265-266: APP_ERROR_CHECK on the result of nrf_drv_saadc_init.
saadc_init_fatal == nrf_drv_saadc_init_err # "NRF_SUCCESS"

\* saadc_init, line 282: the value it returns when it returns.
saadc_init_ret == "M_BATT_STATUS_CODE_SUCCESS"

\* app_timer_periodic_handler: what one call does in the current state.
app_timer_periodic_handler_outcome ==
    IF saadc_init_fatal THEN "fatal"
    ELSE IF saadc_init_ret = "NRF_ERROR_INVALID_STATE" THEN "AlreadyInProgress"
    ELSE "triggered"

\* app_timer_periodic_handler: its effect on the SAADC; mon is the level of the
\* monitor-enable output during the call.
PeriodicHandlerEffect(mon) ==
    IF app_timer_periodic_handler_outcome = "triggered"
    THEN /\ saadcInit' = TRUE
         /\ adcOwner' = adcOwner \cup {"scheduler"}
         /\ hwPending' = "DONE"
         /\ cycleTriggers' = cycleTriggers + 1
         /\ nTrig' = nTrig + 1
         /\ acqMon' = (m_batt_meas_param.batt_mon_en_pin_used => mon)
         /\ UNCHANGED m_adc_cal_in_progress
    ELSE UNCHANGED adcVars

\* The arguments of one m_batt_meas_init call.
InitArgs ==
    {[p_handle_null |-> FALSE, p_init_null |-> FALSE, init |-> i] : i \in InitInputs}
    \cup {[p_handle_null |-> h, p_init_null |-> ~h,
           init |-> [evt_handler |-> "NULL", param |-> ParamZero]] : h \in BOOLEAN}

\* m_batt_meas_init up to the wait loop of saadc_calibrate.
m_batt_meas_init(a) ==
    /\ ~fault /\ mainPc = "idle" /\ nInit < MaxInitCalls
    /\ nInit' = nInit + 1
    /\ spins' = 0
    /\ UNCHANGED <<irqVars, timerVars, sinkVars, outVars, fnVars>>
    /\ IF a.p_handle_null \/ a.p_init_null
       THEN UNCHANGED <<cfgVars, adcVars, pinVars, faultVars, mainPc, init_cb>>
       ELSE LET pc == param_check(a.init, m_battery_divider_factor)
                pin == a.init.param.batt_mon_en_pin_used
            IN /\ init_cb' = TRUE
               /\ m_battery_divider_factor' = pc.factor
               /\ IF pc.err # "SUCCESS"
                  THEN /\ Fatal("param_check")
                       /\ UNCHANGED <<m_evt_handler, m_batt_meas_param, adcVars, pinVars, mainPc>>
                  ELSE /\ m_evt_handler' = a.init.evt_handler
                       /\ m_batt_meas_param' = a.init.param
                       /\ IF pin /\ pinConfigured
                          THEN /\ Fatal("nrf_drv_gpiote_out_init")
                               /\ UNCHANGED <<adcVars, pinVars, mainPc>>
                          ELSE /\ pinConfigured' = (pinConfigured \/ pin)
                               /\ monEn' = IF pin THEN FALSE ELSE monEn
                               /\ IF nrf_drv_saadc_init_err # "NRF_SUCCESS"
                                  THEN /\ Fatal("saadc_calibrate")
                                       /\ UNCHANGED <<adcVars, mainPc>>
                                  ELSE /\ saadcInit' = TRUE
                                       /\ adcOwner' = adcOwner \cup {"calibration"}
                                       /\ m_adc_cal_in_progress' = TRUE
                                       /\ hwPending' = "CALIBRATEDONE"
                                       /\ mainPc' = "cal_wait"
                                       /\ UNCHANGED <<faultVars, cycleTriggers, acqMon, nTrig>>

\* saadc_calibrate, lines 300-303: one more iteration of the wait loop.
saadc_calibrate_spin ==
    /\ ~fault /\ mainPc = "cal_wait"
    /\ m_adc_cal_in_progress
    /\ spins' = (spins + 1) % (MaxSpin + 1)
    /\ UNCHANGED <<cfgVars, adcVars, irqVars, timerVars, pinVars, sinkVars, faultVars,
                   mainPc, nInit, init_cb, outVars, fnVars>>

\* saadc_calibrate, line 305, and m_batt_meas_init, lines 439-441: the loop ends
\* and both return success.
saadc_calibrate_return ==
    /\ ~fault /\ mainPc = "cal_wait"
    /\ ~m_adc_cal_in_progress
    /\ mainPc' = "idle"
    /\ spins' = 0
    /\ UNCHANGED <<cfgVars, adcVars, irqVars, timerVars, pinVars, sinkVars, faultVars,
                   nInit, init_cb, outVars, fnVars>>

\* The calibration-done event never reaches the handler (the SAADC interrupt is
\* masked, or the caller runs at its priority or above).
CalibrationSignalLost ==
    /\ ~fault
    /\ hwPending = "CALIBRATEDONE"
    /\ hwPending' = "NONE"
    /\ UNCHANGED <<cfgVars, saadcInit, adcOwner, cycleTriggers, acqMon, nTrig,
                   m_adc_cal_in_progress, irqVars, timerVars, pinVars, sinkVars, faultVars,
                   mainVars, outVars, fnVars>>

\* saadc_event_handler_interrupt, NRF_DRV_SAADC_EVT_CALIBRATEDONE.
saadc_event_handler_calibratedone ==
    /\ ~fault
    /\ hwPending = "CALIBRATEDONE"
    /\ m_adc_cal_in_progress' = FALSE
    /\ nCalDone' = nCalDone + 1
    /\ nrf_drv_saadc_uninit
    /\ UNCHANGED <<cfgVars, acqMon, nTrig, m_buffer, nDone, timerVars, pinVars, sinkVars,
                   faultVars, mainVars, outVars, fnVars>>

\* app_sched_event_put that reports success and stores nothing.
EnqueueDropped(q, e) == q

\* app_sched_event_put, line 250: the queue after a successful put.
Enqueue(q, e) == Append(q, e)

\* saadc_event_handler_interrupt, NRF_DRV_SAADC_EVT_DONE, the converter having
\* written raw to m_buffer.
saadc_event_handler_done(raw) ==
    /\ ~fault
    /\ hwPending = "DONE"
    /\ m_buffer' = raw
    /\ nDone' = nDone + 1
    /\ \E voltage \in adc_to_batt_voltage(raw, m_battery_divider_factor) :
         IF Len(schedQueue) >= SchedQueueSize
         THEN /\ Fatal("app_sched_event_put")
              /\ UNCHANGED <<schedQueue, saadcInit, hwPending, adcOwner, cycleTriggers>>
         ELSE /\ schedQueue' = Enqueue(schedQueue,
                                       [voltage |-> voltage, id |-> nDone + 1, raw |-> raw,
                                        factor |-> m_battery_divider_factor, mon |-> acqMon])
              /\ nrf_drv_saadc_uninit
              /\ UNCHANGED faultVars
    /\ UNCHANGED <<cfgVars, acqMon, nTrig, m_adc_cal_in_progress, nCalDone, timerVars,
                   pinVars, sinkVars, mainVars, delivered, handlerRuns, fnVars>>

\* The application timer expires and calls app_timer_periodic_handler.
app_timer_periodic_handler ==
    /\ ~fault
    /\ timerRunning
    /\ app_timer_periodic_handler_outcome = "triggered" => nTrig < MaxSamples
    /\ PeriodicHandlerEffect(monEn)
    /\ IF app_timer_periodic_handler_outcome = "fatal"
       THEN Fatal("saadc_init")
       ELSE UNCHANGED faultVars
    /\ UNCHANGED <<cfgVars, irqVars, timerVars, pinVars, sinkVars, mainVars, outVars, fnVars>>

\* app_timer_create, line 376: the timer module refuses a running timer.
app_timer_create_err == IF timerRunning THEN "NRF_ERROR_INVALID_STATE" ELSE "NRF_SUCCESS"

\* app_timer_stop, line 398: the timer module refuses a timer never created.
app_timer_stop_err == IF timerCreated THEN "NRF_SUCCESS" ELSE "NRF_ERROR_INVALID_STATE"

m_batt_meas_enable(meas_interval_ms) ==
    /\ ~fault /\ mainPc = "idle"
    /\ UNCHANGED <<cfgVars, irqVars, sinkVars, mainVars, outVars, fnVars, pinConfigured>>
    /\ IF meas_interval_ms < MEAS_INTERVAL_LOW_LIMIT_MS
       THEN UNCHANGED <<adcVars, timerVars, monEn, faultVars>>
       ELSE /\ app_timer_periodic_handler_outcome = "triggered" => nTrig < MaxSamples
            /\ monEn' = IF m_batt_meas_param.batt_mon_en_pin_used THEN TRUE ELSE monEn
            /\ PeriodicHandlerEffect(monEn')
            /\ IF app_timer_periodic_handler_outcome = "fatal"
               THEN /\ Fatal("saadc_init")
                    /\ UNCHANGED timerVars
               ELSE IF app_timer_create_err # "NRF_SUCCESS"
               THEN /\ Fatal("app_timer_create")
                    /\ UNCHANGED timerVars
               ELSE /\ timerCreated' = TRUE
                    /\ timerRunning' = TRUE
                    /\ UNCHANGED faultVars

\* m_batt_meas_disable that also marks the monitor-enable pin as unused.
m_batt_meas_disable_forgets_pin ==
    /\ ~fault /\ mainPc = "idle"
    /\ monEn' = IF m_batt_meas_param.batt_mon_en_pin_used THEN FALSE ELSE monEn
    /\ acqMon' = IF m_batt_meas_param.batt_mon_en_pin_used THEN FALSE ELSE acqMon
    /\ m_batt_meas_param' = [m_batt_meas_param EXCEPT !.batt_mon_en_pin_used = FALSE]
    /\ IF app_timer_stop_err # "NRF_SUCCESS"
       THEN /\ Fatal("app_timer_stop")
            /\ UNCHANGED timerVars
       ELSE /\ timerRunning' = FALSE
            /\ UNCHANGED <<timerCreated, faultVars>>
    /\ UNCHANGED <<m_evt_handler, m_battery_divider_factor, saadcInit, hwPending, adcOwner,
                   cycleTriggers, nTrig, m_adc_cal_in_progress, irqVars, sinkVars, mainVars,
                   outVars, fnVars, pinConfigured>>

m_batt_meas_disable ==
    /\ ~fault /\ mainPc = "idle"
    /\ monEn' = IF m_batt_meas_param.batt_mon_en_pin_used THEN FALSE ELSE monEn
    /\ acqMon' = IF m_batt_meas_param.batt_mon_en_pin_used THEN FALSE ELSE acqMon
    /\ IF app_timer_stop_err # "NRF_SUCCESS"
       THEN /\ Fatal("app_timer_stop")
            /\ UNCHANGED timerVars
       ELSE /\ timerRunning' = FALSE
            /\ UNCHANGED <<timerCreated, faultVars>>
    /\ UNCHANGED <<cfgVars, saadcInit, hwPending, adcOwner, cycleTriggers, nTrig,
                   m_adc_cal_in_progress, irqVars, sinkVars, mainVars, outVars, fnVars,
                   pinConfigured>>

\* The battery service initialized with the invalid marker whatever was retained.
InitialBattLevelInvalid == INVALID_BATTERY_LEVEL

\* Line 349: bas_init.initial_batt_level.
InitialBattLevel == m_initial_batt_level_percent

\* battery_service_init, reached through p_handle->init_cb; ble_bas_init returns err.
battery_service_init(err) ==
    /\ ~fault /\ mainPc = "idle"
    /\ init_cb
    /\ IF err # "NRF_SUCCESS"
       THEN /\ Fatal("ble_bas_init")
            /\ UNCHANGED sinkVars
       ELSE /\ basLevel' = InitialBattLevel
            /\ m_ble_bas_configured' = TRUE
            /\ UNCHANGED <<m_initial_batt_level_percent, faultVars>>
    /\ UNCHANGED <<cfgVars, adcVars, irqVars, timerVars, pinVars, mainVars, outVars, fnVars>>

\* Line 212: the values battery_level_percent can receive (the table pointer is
\* null and delta_mv is zero until m_batt_meas_init has stored the parameters).
BatteryLevelPercent(voltage_mv) ==
    IF m_batt_meas_param.state_of_charge.delta_mv = 0
    THEN UndefinedU8
    ELSE {batt_voltage_to_percent(voltage_mv, m_batt_meas_param.state_of_charge)}

\* Every sink result other than success reaches APP_ERROR_HANDLER.
SinkErrorIsFatalStrict(err_code) == err_code # "NRF_SUCCESS"

\* Lines 218-221: the sink results that reach APP_ERROR_HANDLER.
SinkErrorIsFatal(err_code) ==
    /\ err_code # "NRF_SUCCESS"
    /\ err_code # "NRF_ERROR_INVALID_STATE"
    /\ err_code # "BLE_ERROR_GATTS_SYS_ATTR_MISSING"

\* The voltage converted by the deferred handler from the shared sample buffer.
EventVoltageFromBuffer(e) ==
    CHOOSE v \in adc_to_batt_voltage(m_buffer, m_battery_divider_factor) : TRUE

\* Line 194: batt_meas_evt.voltage_mv, copied from the scheduler's event data.
EventVoltage(e) == e.voltage

\* The handler called a second time for the same event.
DispatchTwice(d, evt) == Append(Append(d, evt), evt)

\* Line 231: m_evt_handler(&batt_meas_evt).
Dispatch(d, evt) == Append(d, evt)

\* app_sched_execute runs batt_event_handler_adc on the oldest queue entry (the
\* entry leaves the queue when the handler has returned); ble_bas_battery_level_update
\* returns err_code.
batt_event_handler_adc(err_code) ==
    /\ ~fault /\ mainPc = "idle"
    /\ schedQueue # <<>>
    /\ handlerRuns' = handlerRuns + 1
    /\ LET e == Head(schedQueue)
           voltage_mv == EventVoltage(e)
           type == EventType(voltage_mv, m_batt_meas_param.batt_voltage_limit_low,
                             m_batt_meas_param.batt_voltage_limit_full)
       IN \E battery_level_percent \in BatteryLevelPercent(voltage_mv) :
            LET evt == [type |-> type, voltage_mv |-> voltage_mv,
                        level_percent |-> battery_level_percent, valid_voltage |-> TRUE,
                        id |-> e.id, raw |-> e.raw, factor |-> e.factor, mon |-> e.mon]
            IN IF m_ble_bas_configured /\ SinkErrorIsFatal(err_code)
               THEN /\ Fatal("ble_bas_battery_level_update")
                    /\ UNCHANGED <<sinkVars, schedQueue, delivered>>
               ELSE /\ IF m_ble_bas_configured
                       THEN /\ basLevel' = battery_level_percent
                            /\ UNCHANGED m_initial_batt_level_percent
                       ELSE /\ m_initial_batt_level_percent' = battery_level_percent
                            /\ UNCHANGED basLevel
                    /\ UNCHANGED m_ble_bas_configured
                    /\ IF m_evt_handler = "NULL"
                       THEN /\ Fatal("m_evt_handler")
                            /\ UNCHANGED <<schedQueue, delivered>>
                       ELSE /\ delivered' = Dispatch(delivered, evt)
                            /\ schedQueue' = Tail(schedQueue)
                            /\ UNCHANGED faultVars
    /\ UNCHANGED <<cfgVars, adcVars, irqVars, timerVars, pinVars, mainVars, fnVars>>

Next ==
    \/ \E a \in InitArgs : m_batt_meas_init(a)
    \/ saadc_calibrate_spin
    \/ saadc_calibrate_return
    \/ CalibrationSignalLost
    \/ saadc_event_handler_calibratedone
    \/ \E raw \in RawSamples : saadc_event_handler_done(raw)
    \/ app_timer_periodic_handler
    \/ \E ms \in Intervals : m_batt_meas_enable(ms)
    \/ m_batt_meas_disable
    \/ \E err \in {"NRF_SUCCESS", "NRF_ERROR_NO_MEM"} : battery_service_init(err)
    \/ \E err \in SinkResults : batt_event_handler_adc(err)

Spec == Init /\ [][Next]_vars

\* Fairness: an iteration of the wait loop, a pending SAADC interrupt and a
\* queued scheduler event are each served eventually.
FairSpec ==
    /\ Spec
    /\ WF_vars(saadc_calibrate_spin)
    /\ WF_vars(saadc_calibrate_return)
    /\ WF_vars(saadc_event_handler_calibratedone)
    /\ WF_vars(\E raw \in RawSamples : saadc_event_handler_done(raw))
    /\ WF_vars(\E err \in SinkResults : batt_event_handler_adc(err))

\* --------------------------------------------- the pure functions on their own

SocTables ==
    {SocExample,
     [num_elements |-> 11, first_element_mv |-> 0, delta_mv |-> 1,
      voltage_to_soc |-> <<0, 10, 20, 30, 40, 50, 60, 70, 80, 90, 100>>],
     [num_elements |-> 3, first_element_mv |-> 3000, delta_mv |-> 1,
      voltage_to_soc |-> <<5, 50, 95>>],
     [num_elements |-> 1, first_element_mv |-> 3000, delta_mv |-> 100,
      voltage_to_soc |-> <<42>>]}

SocVoltages ==
    {0, 1, 2, 3, 9, 10, 11, 2500, 2999, 3000, 3001, 3002, 3003, 3050, 3099, 3100, 3999,
     4000, 4001, 4099, 5000, 32767, 32768, 35767, 35768, 40000, TwoTo16 - 1}

ClassifyVoltages == {0, 3290, 3300, 3310, 3700, 4090, 4100, 4110, TwoTo16 - 1}

\* The threshold pairs param_check accepts (low <= full).
ThresholdPairs == {th \in ClassifyVoltages \X ClassifyVoltages : th[1] <= th[2]}

\* The values of nrf_saadc_gain_t and two selectors outside the enumeration.
GainSelectors == Gains \cup {"8", "255"}

FnInputs ==
    {[f |-> "batt_voltage_to_percent", voltage_mv |-> v, soc |-> t] :
        v \in SocVoltages, t \in SocTables}
    \cup {[f |-> "round", tmp_voltage |-> t] : t \in 0..(TwoTo16 - 1)}
    \cup {[f |-> "classify", voltage_mv |-> v, low |-> th[1], full |-> th[2]] :
            v \in ClassifyVoltages, th \in ThresholdPairs}
    \cup {[f |-> "adc_gain_enum_to_real_gain", gain_reg |-> g, old_val |-> o] :
            g \in GainSelectors, o \in {<<0, 1>>, <<7, 1>>}}

InitFn ==
    /\ InitProgram
    /\ fnIn \in FnInputs
    /\ fnOut = [done |-> FALSE, val |-> 0]

ApplyBattVoltageToPercent ==
    /\ fnIn.f = "batt_voltage_to_percent" /\ ~fnOut.done
    /\ fnOut' = [done |-> TRUE, val |-> batt_voltage_to_percent(fnIn.voltage_mv, fnIn.soc)]
    /\ UNCHANGED <<cfgVars, adcVars, irqVars, timerVars, pinVars, sinkVars, faultVars,
                   mainVars, outVars, fnIn>>

ApplyRoundToTens ==
    /\ fnIn.f = "round" /\ ~fnOut.done
    /\ fnOut' = [done |-> TRUE, val |-> RoundToTens(fnIn.tmp_voltage)]
    /\ UNCHANGED <<cfgVars, adcVars, irqVars, timerVars, pinVars, sinkVars, faultVars,
                   mainVars, outVars, fnIn>>

ApplyEventType ==
    /\ fnIn.f = "classify" /\ ~fnOut.done
    /\ fnOut' = [done |-> TRUE, val |-> EventType(fnIn.voltage_mv, fnIn.low, fnIn.full)]
    /\ UNCHANGED <<cfgVars, adcVars, irqVars, timerVars, pinVars, sinkVars, faultVars,
                   mainVars, outVars, fnIn>>

ApplyAdcGainEnumToRealGain ==
    /\ fnIn.f = "adc_gain_enum_to_real_gain" /\ ~fnOut.done
    /\ fnOut' = [done |-> TRUE, val |-> adc_gain_enum_to_real_gain(fnIn.gain_reg, fnIn.old_val)]
    /\ UNCHANGED <<cfgVars, adcVars, irqVars, timerVars, pinVars, sinkVars, faultVars,
                   mainVars, outVars, fnIn>>

NextFn ==
    \/ ApplyBattVoltageToPercent
    \/ ApplyRoundToTens
    \/ ApplyEventType
    \/ ApplyAdcGainEnumToRealGain

SpecFn == InitFn /\ [][NextFn]_vars

\* ------------------------------------------------------------------ claims

\* C1: on an initialized pipeline, a timer tick that arrives while the sample of
\* a prior cycle is still in flight is benign: it changes nothing on the SAADC,
\* triggers no conversion and does not reach the fatal error handler.
C1_BusyTickIsBenign ==
    [][(app_timer_periodic_handler /\ hwPending = "DONE" /\ nCalDone > 0)
       => (~fault' /\ UNCHANGED adcVars)]_vars

\* C2: no conversion is triggered and the periodic timer is not armed unless a
\* calibration has completed.
C2_CalibrationGating ==
    (nTrig > 0 \/ timerRunning \/ timerCreated) => nCalDone > 0

\* C3: the wait in saadc_calibrate always ends: once entered, the caller leaves
\* the loop (or the device has been halted by the fatal error handler).
C3_CalibrateTerminates ==
    (mainPc = "cal_wait" /\ ~fault) ~> (mainPc = "idle" \/ fault)

Ids(q) == [i \in 1..Len(q) |-> q[i].id]

UpTo(n) == [i \in 1..n |-> i]

\* C4 as claimed: with an event handler installed, every run of the deferred
\* handler has dispatched its sample's event, so no completed conversion that was
\* processed is left without an event.
C4_EveryProcessedSampleDispatched ==
    m_evt_handler # "NULL" => handlerRuns = Len(delivered)

\* C4 as amended: the completed conversions are, in completion order, the
\* dispatched events followed by the queued samples, each once; only a
\* conversion whose hand-off or classification entered the fatal error handler
\* has no event; a calibration-done interrupt adds none.
C4_AtMostOnceInOrder ==
    /\ \/ Ids(delivered) \o Ids(schedQueue) = UpTo(nDone)
       \/ /\ faultAt = "app_sched_event_put"
          /\ Ids(delivered) \o Ids(schedQueue) = UpTo(nDone - 1)
    /\ \/ handlerRuns = Len(delivered)
       \/ /\ faultAt \in {"ble_bas_battery_level_update", "m_evt_handler"}
          /\ handlerRuns = Len(delivered) + 1
    /\ \A i \in 1..Len(delivered) : delivered[i].valid_voltage

\* Two conversions completed after a calibration and both were dispatched.
C4_Witness ==
    /\ ~fault
    /\ nCalDone >= 1
    /\ nDone = 2
    /\ Len(delivered) = 2

\* C5: the SAADC has at most one owner, and at most one conversion is triggered
\* between an initialization and the uninit that releases it.
C5_SingleOwner ==
    /\ Cardinality(adcOwner) <= 1
    /\ cycleTriggers <= 1
    /\ (adcOwner # {}) => saadcInit

\* A tick arrived while the calibration held the SAADC and was refused.
C5_Witness ==
    /\ faultAt = "saadc_init"
    /\ adcOwner = {"calibration"}
    /\ cycleTriggers = 0

\* C6: m_batt_meas_init called with a null handler, a divider with exactly one
\* zero resistor, or low > full reports the failure as its result: the call
\* returns and the fatal error handler is not entered.
C6_ValidationReturnsError ==
    [][\A a \in InitArgs :
         (/\ m_batt_meas_init(a)
          /\ ~a.p_handle_null /\ ~a.p_init_null
          /\ param_check(a.init, m_battery_divider_factor).err # "SUCCESS")
         => (~fault' /\ mainPc' = "idle")]_vars

\* C7: the event type is LOW when voltage <= low, else FULL when voltage >= full,
\* else DATA, for every voltage and every accepted pair low <= full.
C7_Classification ==
    (fnIn.f = "classify" /\ fnOut.done) =>
        /\ fnIn.voltage_mv <= fnIn.low => fnOut.val = "LOW"
        /\ (fnIn.voltage_mv > fnIn.low /\ fnIn.voltage_mv >= fnIn.full) => fnOut.val = "FULL"
        /\ (fnIn.voltage_mv > fnIn.low /\ fnIn.voltage_mv < fnIn.full) => fnOut.val = "DATA"

\* A voltage equal to both limits was classified LOW.
C7_Witness ==
    /\ fnIn.f = "classify" /\ fnOut.done
    /\ fnIn.voltage_mv = fnIn.low /\ fnIn.low = fnIn.full
    /\ fnOut.val = "LOW"

Clamp(x, lo, hi) == IF x < lo THEN lo ELSE IF x > hi THEN hi ELSE x

\* C8: batt_voltage_to_percent returns
\* levels[clamp(floor((voltage_mv - first_element_mv) / delta_mv), 0, num_elements - 1)].
C8_ClampedLookup ==
    (fnIn.f = "batt_voltage_to_percent" /\ fnOut.done) =>
        fnOut.val =
            fnIn.soc.voltage_to_soc[
                Clamp((fnIn.voltage_mv - fnIn.soc.first_element_mv) \div fnIn.soc.delta_mv,
                      0, fnIn.soc.num_elements - 1) + 1]

\* C9: the rounded voltage is a multiple of 10, equals ((t + 5) div 10) * 10 and
\* is within 5 mV of t, for every 16-bit t.
C9_RoundsToNearestTen ==
    (fnIn.f = "round" /\ fnOut.done) =>
        /\ fnOut.val % 10 = 0
        /\ fnOut.val = ((fnIn.tmp_voltage + 5) \div 10) * 10
        /\ fnOut.val - fnIn.tmp_voltage <= 5
        /\ fnIn.tmp_voltage - fnOut.val <= 5

\* C10: on an initialized pipeline whose timer is not running (before the first
\* enable, or after a disable), m_batt_meas_enable with an interval below the
\* limit changes nothing, and with an interval at or above it triggers exactly
\* one conversion and leaves the periodic timer running.
C10_EnableContract ==
    [][\A ms \in Intervals :
         (m_batt_meas_enable(ms) /\ m_evt_handler # "NULL" /\ ~timerRunning)
         => IF ms < MEAS_INTERVAL_LOW_LIMIT_MS
            THEN UNCHANGED <<adcVars, timerVars, pinVars, faultVars>>
            ELSE ~fault' /\ nTrig' = nTrig + 1 /\ timerCreated' /\ timerRunning']_vars

DisabledInFlight ==
    /\ ~fault /\ mainPc = "idle"
    /\ timerCreated /\ ~timerRunning
    /\ hwPending = "DONE"
    /\ m_evt_handler # "NULL"

\* C12: a disable requested while a sample is in flight does not abort the
\* cycle: the conversion completes, the SAADC is released and the event of every
\* triggered conversion, the one in flight included, is dispatched (unless the
\* pipeline is enabled or initialized again, or the device has been halted by the
\* fatal error handler); and while the timer stays stopped nothing but a new
\* enable or init takes the SAADC again.
C12_InFlightCycleCompletes ==
    /\ DisabledInFlight
          ~> (\/ (~saadcInit /\ ~timerRunning /\ Len(delivered) = nTrig)
              \/ timerRunning \/ mainPc = "cal_wait" \/ fault)
    /\ [][(~timerRunning /\ ~saadcInit /\ saadcInit')
          => ((\E ms \in Intervals : m_batt_meas_enable(ms))
              \/ (\E a \in InitArgs : m_batt_meas_init(a)))]_vars

\* The sample that was in flight when disable de-asserted the monitor output has
\* been dispatched; the timer is stopped and the SAADC released.
C12_Witness ==
    /\ ~fault
    /\ timerCreated /\ ~timerRunning
    /\ ~saadcInit /\ hwPending = "NONE"
    /\ schedQueue = <<>>
    /\ delivered # <<>>
    /\ m_batt_meas_param.batt_mon_en_pin_used
    /\ ~delivered[Len(delivered)].mon

\* The sink results the claim names as swallowed, and success.
SinkResultsTolerated ==
    {"NRF_SUCCESS", "NRF_ERROR_INVALID_STATE", "BLE_ERROR_GATTS_SYS_ATTR_MISSING"}

\* C13: a run of the deferred handler with the sink active pushes the sample's
\* percentage to the sink; on success, "invalid state" and "attribute missing"
\* the event is dispatched and the fatal error handler is not entered, on any
\* other sink result the fatal error handler is entered; with the sink not
\* active the sink is left untouched and the event is dispatched.
C13_SinkErrorHandling ==
    [][\A err \in SinkResults :
         (batt_event_handler_adc(err) /\ m_evt_handler # "NULL")
         => LET level == batt_voltage_to_percent(Head(schedQueue).voltage,
                                                 m_batt_meas_param.state_of_charge)
                dispatched ==
                    /\ ~fault'
                    /\ Len(delivered') = Len(delivered) + 1
                    /\ delivered'[Len(delivered')].level_percent = level
                    /\ delivered'[Len(delivered')].id = Head(schedQueue).id
            IN IF ~m_ble_bas_configured
               THEN dispatched /\ basLevel' = basLevel
               ELSE IF err \in SinkResultsTolerated
               THEN dispatched /\ basLevel' = level
               ELSE /\ fault' /\ faultAt' = "ble_bas_battery_level_update"
                    /\ delivered' = delivered]_vars

\* The first sample was classified before the sink was active and retained, the
\* second was pushed to the active sink, and both events were dispatched.
C13_Witness ==
    /\ ~fault
    /\ m_ble_bas_configured
    /\ Len(delivered) = 2
    /\ delivered[1].level_percent # delivered[2].level_percent
    /\ m_initial_batt_level_percent = delivered[1].level_percent
    /\ basLevel = delivered[2].level_percent

\* C14: the interrupt handler only captures the raw sample and enqueues it: what
\* it hands to the deferred context is the raw code, the millivolt conversion
\* being left to the deferred handler.
C14_InterruptHandsOffRawSample ==
    [][\A raw \in RawSamples :
         (saadc_event_handler_done(raw) /\ nCalDone > 0 /\ m_evt_handler # "NULL" /\ ~fault')
         => schedQueue'[Len(schedQueue')].voltage = raw]_vars

\* C15: on an initialized pipeline the SAADC stays owned until the event of the
\* cycle has been dispatched: the completion interrupt that hands a sample off
\* leaves the SAADC initialized, and no conversion is triggered while the sample
\* of an earlier cycle still waits for its dispatch.
C15_ReleaseAfterDispatch ==
    [][(nCalDone > 0 /\ m_evt_handler # "NULL" /\ ~fault')
       => /\ (\E raw \in RawSamples : saadc_event_handler_done(raw)) => saadcInit'
          /\ nTrig' > nTrig => schedQueue = <<>>]_vars

\* C16: while the sink is not active the retained initial level is the percentage
\* of the most recently classified sample, or 0xFF when none has been classified;
\* battery_service_init hands the retained value to the sink; once the sink is
\* active no step changes the retained level.
C16_RetainedInitialLevel ==
    /\ []((~m_ble_bas_configured /\ faultAt # "m_evt_handler") =>
            m_initial_batt_level_percent =
                IF delivered = <<>> THEN INVALID_BATTERY_LEVEL
                ELSE delivered[Len(delivered)].level_percent)
    /\ [][((\E err \in {"NRF_SUCCESS", "NRF_ERROR_NO_MEM"} : battery_service_init(err))
           /\ ~fault')
          => (m_ble_bas_configured' /\ basLevel' = m_initial_batt_level_percent)]_vars
    /\ [][m_ble_bas_configured
          => m_initial_batt_level_percent' = m_initial_batt_level_percent]_vars

\* A sample was retained, the sink was activated, and a later sample with another
\* percentage left the retained level alone.
C16_Witness ==
    /\ m_ble_bas_configured
    /\ handlerRuns = 2 /\ Len(delivered) = 2
    /\ m_initial_batt_level_percent # INVALID_BATTERY_LEVEL
    /\ m_initial_batt_level_percent = delivered[1].level_percent
    /\ m_initial_batt_level_percent # delivered[2].level_percent

\* C17: after a successful initialization, enable, disable, the timer tick, both
\* SAADC interrupts, the deferred classification and the sink's activation leave
\* the configuration (event handler, thresholds, SoC table, ADC pin, monitor pin
\* use, divider factor) as it is.
C17_ConfigurationUnchanged ==
    [][(/\ nCalDone > 0 /\ m_evt_handler # "NULL"
        /\ \/ \E ms \in Intervals : m_batt_meas_enable(ms)
           \/ m_batt_meas_disable
           \/ app_timer_periodic_handler
           \/ saadc_event_handler_calibratedone
           \/ \E raw \in RawSamples : saadc_event_handler_done(raw)
           \/ \E err \in SinkResults : batt_event_handler_adc(err)
           \/ \E err \in {"NRF_SUCCESS", "NRF_ERROR_NO_MEM"} : battery_service_init(err))
       => UNCHANGED cfgVars]_vars

\* Enable, a second trigger, both completions, both dispatches, the sink's
\* activation and a disable have all happened, and the configuration is the one
\* m_batt_meas_init stored.
C17_Witness ==
    /\ ~fault /\ nInit = 1 /\ nCalDone = 1
    /\ nTrig = 2 /\ nDone = 2 /\ Len(delivered) = 2
    /\ m_ble_bas_configured
    /\ timerCreated /\ ~timerRunning
    /\ m_evt_handler = "handler"
    /\ m_batt_meas_param = Param(6, 1, 3300, 4100, TRUE)
    /\ m_battery_divider_factor = <<1, 7>>

\* C18: every dispatched event carries the voltage converted from the raw sample
\* of its own cycle, whatever m_buffer holds by the time of the dispatch, and the
\* events are dispatched in the order in which their conversions completed; the
\* classification and the percentage of an event are those of its own voltage
\* under the configuration in force at its dispatch.
C18_EventMatchesOwnSample ==
    /\ [](\A i \in 1..Len(delivered) :
            /\ delivered[i].id = i
            /\ delivered[i].voltage_mv
                 \in adc_to_batt_voltage(delivered[i].raw, delivered[i].factor))
    /\ [][Len(delivered') = Len(delivered) + 1
          => LET e == delivered'[Len(delivered')]
             IN /\ e.raw = Head(schedQueue).raw
                /\ e.level_percent =
                      batt_voltage_to_percent(e.voltage_mv, m_batt_meas_param.state_of_charge)
                /\ e.type =
                      EventType(e.voltage_mv, m_batt_meas_param.batt_voltage_limit_low,
                                m_batt_meas_param.batt_voltage_limit_full)]_vars

\* The event of the first cycle was dispatched after the second conversion had
\* completed and overwritten m_buffer with another raw code.
C18_Witness ==
    /\ ~fault
    /\ Len(delivered) = 1 /\ delivered[1].id = 1
    /\ Len(schedQueue) = 1 /\ schedQueue[1].id = 2
    /\ m_buffer = schedQueue[1].raw
    /\ m_buffer # delivered[1].raw

\* C19: an event dispatched with valid_voltage set comes from a conversion during
\* which the monitor-enable output, when the pin is in use, was asserted from the
\* trigger to the completion.
C19_ValidMeansMonitored ==
    \A i \in 1..Len(delivered) : delivered[i].valid_voltage => delivered[i].mon

\* The gain each selector stands for, as <<numerator, denominator>>.
ActualGain(gain_reg) ==
    CASE gain_reg = "NRF_SAADC_GAIN1_6" -> <<1, 6>>
      [] gain_reg = "NRF_SAADC_GAIN1_5" -> <<1, 5>>
      [] gain_reg = "NRF_SAADC_GAIN1_4" -> <<1, 4>>
      [] gain_reg = "NRF_SAADC_GAIN1_3" -> <<1, 3>>
      [] gain_reg = "NRF_SAADC_GAIN1_2" -> <<1, 2>>
      [] gain_reg = "NRF_SAADC_GAIN1"   -> <<1, 1>>
      [] gain_reg = "NRF_SAADC_GAIN2"   -> <<2, 1>>
      [] gain_reg = "NRF_SAADC_GAIN4"   -> <<4, 1>>

\* C20: adc_gain_enum_to_real_gain returns success and the actual gain for each
\* of the eight selectors, and the invalid-parameter error with *real_val left as
\* it was for any other selector.
C20_GainMapping ==
    (fnIn.f = "adc_gain_enum_to_real_gain" /\ fnOut.done) =>
        IF fnIn.gain_reg \in Gains
        THEN /\ fnOut.val.err = "SUCCESS"
             /\ fnOut.val.real_val = ActualGain(fnIn.gain_reg)
        ELSE /\ fnOut.val.err = "INVALID_PARAM"
             /\ fnOut.val.real_val = fnIn.old_val

====
